---------------------------- MODULE Spec2Model ----------------------------
(***************************************************************************)
(* fileforce: a multi-tenant file hosting service (axum + rusqlite).       *)
(*                                                                         *)
(* The model follows src/src/handlers.rs, src/src/auth.rs and              *)
(* src/src/db.rs.  Every inbound request runs as one task.  A task walks   *)
(* through its handler one await point at a time; every catalog statement  *)
(* is two steps, the acquisition of the single connection mutex            *)
(* (conn.lock().await) and the statement itself, which ends by dropping    *)
(* the guard.  Byte storage (tokio::fs) is touched outside the mutex.      *)
(***************************************************************************)
EXTENDS Naturals, Sequences, FiniteSets

\* ------------------------------------------------------------------ bounds

\* Requests the server accepts during one run.
MaxRequests == 5

\* Requests the server accepts during one run whose progress is checked.
LiveRequests == 4

\* Request tasks that may be in flight at the same time.
Tasks == {1, 2}

\* ------------------------------------------------------------ value domains

\* Values Uuid::new_v4() returns for user ids and for file ids, and values
\* generate_token() returns, each in the order in which new ones appear.
\* (Ids of the two tables are never compared with each other.)
UserIds == <<"u1", "u2">>
FileIds == <<"f1", "f2">>
TokenPool == <<"T1", "T2">>

Range(seq) == { seq[i] : i \in 1..Len(seq) }

Uuids == Range(UserIds) \cup Range(FileIds)
Tokens == Range(TokenPool)

\* A random generator pays no attention to the values in use: what it
\* returns is one of them (a collision) or a new value.  Values are opaque,
\* so the new one is taken to be the first of the pool not in use.
Draw(pool, used) ==
    (Range(pool) \cap used)
        \cup { pool[i] : i \in { j \in 1..Len(pool) :
                                    /\ pool[j] \notin used
                                    /\ \A k \in 1..(j - 1) : pool[k] \in used } }

\* A request without an Authorization header.
NoToken == "<none>"

\* SQL NULL / Option::None of a text column or a string local.
NULL == "<null>"

\* No task holds the mutex.
NoTask == 0

Usernames == {"alice", "bob"}
Passwords == {"pw1", "pw2"}
Contents == {"hello", "world"}

\* JSON bodies of POST /register.
RegisterInputs ==
    { [username |-> "alice", email |-> "a@x.com", password |-> "pw1"],
      [username |-> "bob",   email |-> "b@x.com", password |-> "pw2"],
      [username |-> "bob",   email |-> "a@x.com", password |-> "pw1"] }

\* JSON bodies of POST /login.
LoginInputs == [username : Usernames, password : Passwords]

\* File names of a multipart field, as the list of their "/"-separated
\* components: a plain name, or a name that climbs out of the owner's
\* directory (the name is not sanitised).
Filenames == { <<"a.txt">>, <<"..", "u1", "a.txt">> }

\* The fields of a multipart body.
Fields == [filename : Filenames, data : Contents]

\* A further file field of a body that carries more than one.
Extra == [filename |-> <<"b.txt">>, data |-> "world"]

\* Multipart bodies: no field, one file field, or two.
Multiparts == { <<>> } \cup { <<f>> : f \in Fields } \cup { <<f, Extra>> : f \in Fields }


\* ------------------------------------------------------------------- state

VARIABLES
    users,        \* table users: set of rows
    files,        \* table files: rows in insertion (rowid) order
    auth_tokens,  \* table auth_tokens: set of rows
    storage,      \* byte storage: resolved path -> bytes
    dirs,         \* directories that exist in byte storage
    lock,         \* task that holds the connection mutex, or NoTask
    nreq,         \* requests accepted so far
    tasks,        \* per task: the request, its position and locals, its response
    uploaded      \* history: file id -> bytes the creating upload carried

vars == <<users, files, auth_tokens, storage, dirs, lock, nreq, tasks, uploaded>>

\* -------------------------------------------------------------- responses

\* (StatusCode, body).into_response(); the body is a message, a token
\* (Json(AuthToken)), a list of File (Json(Vec<File>) / Json(File)) or bytes.
Response(status, msg, token, list, content) ==
    [status |-> status, msg |-> msg, token |-> token, files |-> list, content |-> content]

Message(status, msg) == Response(status, msg, NULL, <<>>, NULL)

\* A task that has produced no response (yet).
NoResponse == Message("<none>", NULL)

\* The handler panicked (an unwrap on Err/None): the task ends without a response.
Panicked(line) == Message("<panic>", line)

RegisterCreated(token) == Response("CREATED", NULL, token, <<>>, NULL)
RegisterFailed == Message("BAD_REQUEST", "User already exists")

LoginOk(token) == Response("OK", NULL, token, <<>>, NULL)
LoginWrongPassword == Message("UNAUTHORIZED", "Invalid credentials")
\* Mutant: an unknown username is told apart from a wrong password.
LoginUnknownUser_Leaky == Message("NOT_FOUND", "User not found")

LoginUnknownUser == Message("UNAUTHORIZED", "Invalid credentials")

MissingToken == Message("UNAUTHORIZED", "Missing token")
InvalidToken == Message("UNAUTHORIZED", "Invalid token")

UploadCreated == Message("CREATED", "File uploaded successfully")
UploadNoFile == Message("BAD_REQUEST", "No file uploaded")

ListOk(list) == Response("OK", NULL, NULL, list, NULL)

PublishOk(file) == Response("OK", NULL, NULL, <<file>>, NULL)
PublishNotFound == Message("NOT_FOUND", "File not found")

ServeOk(bytes) == Response("OK", NULL, NULL, <<>>, bytes)
ServeNoRow == Message("NOT_FOUND", "File not found")
ServeNoBytes == Message("NOT_FOUND", "File not found")

\* ------------------------------------------------------------ credentials

\* bcrypt::hash: an opaque one-way digest of the password.
hash_password(password) == <<"bcrypt", password>>

\* bcrypt::verify(...).unwrap_or(false)
verify_password(password, digest) ==
    /\ Len(digest) = 2
    /\ digest[1] = "bcrypt"
    /\ digest[2] = password

\* --------------------------------------------------------------- catalog

\* INSERT INTO users: PRIMARY KEY id, UNIQUE username, UNIQUE email.
UsersInsertOk(us, row) ==
    \A u \in us : /\ u.id # row.id
                  /\ u.username # row.username
                  /\ u.email # row.email

\* SELECT id, password_hash FROM users WHERE username = ?
UsersByUsername(us, username) == { u \in us : u.username = username }

\* INSERT INTO auth_tokens: PRIMARY KEY token.
TokensInsertOk(ts, row) == \A r \in ts : r.token # row.token

\* Mutant: the lookup without its WHERE clause.
TokenRows_AnyToken(ts, token) == ts

\* SELECT user_id FROM auth_tokens WHERE token = ?
TokenRows(ts, token) == { r \in ts : r.token = token }

\* INSERT INTO files: PRIMARY KEY id.
FilesInsertOk(fs, row) == \A i \in 1..Len(fs) : fs[i].id # row.id

\* Mutant: the listing without its WHERE clause.
FilesOfUser_All(fs, user_id) == fs

\* SELECT ... FROM files WHERE user_id = ?
FilesOfUser(fs, user_id) == SelectSeq(fs, LAMBDA r : r.user_id = user_id)

\* Option::None of public_url (SQL NULL).
NoUrl == <<>>

\* format!("/public/{}", file_id)
PublicUrl(file_id) == <<"public", file_id>>

\* Mutant: the UPDATE sets the flag and leaves public_url alone.
PublishedRow_FlagOnly(r, public_url) == [r EXCEPT !.is_public = TRUE]

\* Mutant: the UPDATE flips the flag, a public row becomes private again.
PublishedRow_Toggle(r, public_url) ==
    IF r.is_public
    THEN [r EXCEPT !.is_public = FALSE, !.public_url = NoUrl]
    ELSE [r EXCEPT !.is_public = TRUE, !.public_url = public_url]

\* Mutant: the UPDATE also stamps updated_at.
PublishedRow_Touch(r, public_url) ==
    [r EXCEPT !.is_public = TRUE, !.public_url = public_url,
              !.updated_at = r.updated_at + 1]

\* The row UPDATE files SET is_public = ?, public_url = ? writes.
PublishedRow(r, public_url) == [r EXCEPT !.is_public = TRUE, !.public_url = public_url]

\* Mutant: the UPDATE without the owner in its WHERE clause.
PublishMatches_AnyOwner(r, file_id, user_id) == r.id = file_id

\* UPDATE ... WHERE id = ? AND user_id = ?: the rows it matches.
PublishMatches(r, file_id, user_id) == r.id = file_id /\ r.user_id = user_id

\* UPDATE files SET is_public = ?, public_url = ? WHERE id = ? AND user_id = ?
FilesPublish(fs, public_url, file_id, user_id) ==
    [i \in 1..Len(fs) |->
        IF PublishMatches(fs[i], file_id, user_id)
        THEN PublishedRow(fs[i], public_url)
        ELSE fs[i]]

\* The number of rows the UPDATE changed.
FilesPublishCount(fs, file_id, user_id) ==
    Cardinality({ i \in 1..Len(fs) : PublishMatches(fs[i], file_id, user_id) })

\* Mutant: the SELECT sees the rows as they were before the UPDATE.
FilesById_Stale(fs, file_id) ==
    SelectSeq(fs, LAMBDA r : r.id = file_id /\ r.is_public = FALSE)

\* SELECT ... FROM files WHERE id = ?
FilesById(fs, file_id) == SelectSeq(fs, LAMBDA r : r.id = file_id)

\* Mutant: the read gate without is_public in its WHERE clause.
PublicFilesById_NoGate(fs, file_id) == SelectSeq(fs, LAMBDA r : r.id = file_id)

\* SELECT file_path FROM files WHERE id = ? AND is_public = ?
PublicFilesById(fs, file_id) ==
    SelectSeq(fs, LAMBDA r : r.id = file_id /\ r.is_public = TRUE)

\* ---------------------------------------------------------- byte storage

\* format!("files/{}", user_id)
UserDir(user_id) == <<"files", user_id>>

\* format!("files/{}/{}", user_id, filename)
FilePath(user_id, filename) == UserDir(user_id) \o filename

\* The location a path names: ".." steps back to the parent directory.
RECURSIVE Walk(_, _)
Walk(path, at) ==
    IF path = <<>> THEN at
    ELSE IF Head(path) = ".."
         THEN Walk(Tail(path), IF at = <<>> THEN <<>> ELSE SubSeq(at, 1, Len(at) - 1))
         ELSE Walk(Tail(path), Append(at, Head(path)))

Resolve(path) == Walk(path, <<>>)

\* The directory a path's last component is looked up in.
Parent(path) == Resolve(SubSeq(path, 1, Len(path) - 1))

\* tokio::fs::create_dir_all
CreateDirAll(ds, dir) == ds \cup { SubSeq(dir, 1, n) : n \in 1..Len(dir) }

\* tokio::fs::write succeeds when the directory of the path exists.
WriteOk(ds, path) == Parent(path) \in ds

\* Mutant: the write reports success and stores nothing.
Write_Lost(st, path, data) == st

\* tokio::fs::write: the file at the location is created or overwritten.
Write(st, path, data) ==
    [p \in DOMAIN st \cup {Resolve(path)} |-> IF p = Resolve(path) THEN data ELSE st[p]]

\* fs::File::open succeeds when the location holds a file.
OpenOk(st, path) == Resolve(path) \in DOMAIN st


\* ------------------------------------------------------------------ tasks

\* A free task slot.
Idle ==
    [op |-> "none", pc |-> "idle",
     username |-> NULL, email |-> NULL, password |-> NULL,
     token |-> NoToken, file_id |-> NULL,
     user_id |-> NULL, filename |-> <<>>, data |-> NULL, file_path |-> <<>>,
     fields |-> 0,
     resp |-> NoResponse]

\* The router hands a request to its handler.
Request(op, pc) == [Idle EXCEPT !.op = op, !.pc = pc]

\* The handler returns (or panics): its locals are dropped and the task
\* holds the response (none after a panic) for the connection.  The request
\* keeps what it carried (token, file id, number of body fields).
Finish(task, resp) ==
    [task EXCEPT !.pc = "respond", !.resp = resp,
                 !.filename = <<>>, !.data = NULL, !.file_path = <<>>]

\* A response is handed to the connection as soon as the handler returns:
\* no other task runs in between.
NoneResponding == \A t \in Tasks : tasks[t].pc # "respond"

\* The task is at this position of its handler and may take a step.
At(t, pc) == NoneResponding /\ tasks[t].pc = pc

\* A new request takes the first free task slot.
CanStart(t) ==
    /\ NoneResponding
    /\ nreq < MaxRequests
    /\ tasks[t].pc = "idle"
    /\ \A s \in Tasks : s < t => tasks[s].pc # "idle"

\* Utc::now(): the clock ticks with every row the catalog commits.
Now == Len(files)

\* Positions at which a task waits for the connection mutex, and the
\* statement each one runs once it holds it.
AfterLock ==
    [reg_lock    |-> "reg_insert",
     tok_lock    |-> "tok_insert",
     login_lock  |-> "login_select",
     verify_lock |-> "verify_select",
     up_lock     |-> "up_insert",
     list_lock   |-> "list_select",
     pub_lock    |-> "pub_update",
     pub_lock2   |-> "pub_select",
     serve_lock  |-> "serve_select"]

\* Where a protected handler continues once the token is resolved.
AfterVerify ==
    [upload |-> "up_field", list |-> "list_lock", publish |-> "pub_lock"]

Init ==
    /\ users = {}
    /\ files = <<>>
    /\ auth_tokens = {}
    /\ storage = [p \in {} |-> NULL]
    /\ dirs = {}
    /\ lock = NoTask
    /\ nreq = 0
    /\ tasks = [t \in Tasks |-> Idle]
    /\ uploaded = [f \in {} |-> NULL]

\* The response leaves the task, which ends.
Respond(t) ==
    /\ tasks[t].pc = "respond"
    /\ tasks' = [tasks EXCEPT ![t] = Idle]
    /\ UNCHANGED <<users, files, auth_tokens, storage, dirs, lock, nreq, uploaded>>

\* Mutant: the mutex is handed out while another task holds it.
Lock_NoWait(t) ==
    /\ NoneResponding
    /\ tasks[t].pc \in DOMAIN AfterLock
    /\ lock' = t
    /\ tasks' = [tasks EXCEPT ![t].pc = AfterLock[tasks[t].pc]]
    /\ UNCHANGED <<users, files, auth_tokens, storage, dirs, nreq, uploaded>>

\* conn.lock().await: the task obtains the mutex when no task holds it.
Lock(t) ==
    /\ NoneResponding
    /\ tasks[t].pc \in DOMAIN AfterLock
    /\ lock = NoTask
    /\ lock' = t
    /\ tasks' = [tasks EXCEPT ![t].pc = AfterLock[tasks[t].pc]]
    /\ UNCHANGED <<users, files, auth_tokens, storage, dirs, nreq, uploaded>>

\* -------------------------------------------------------------- register

\* POST /register.
RegisterStart(t) ==
    /\ CanStart(t)
    /\ tasks' = [tasks EXCEPT ![t] = Request("register", "reg_lock")]
    /\ nreq' = nreq + 1
    /\ UNCHANGED <<users, files, auth_tokens, storage, dirs, lock, uploaded>>

\* The row register_user inserts (id = Uuid::new_v4()).  No statement reads
\* created_at and updated_at of users or auth_tokens; the rows of the model
\* leave them out.
NewUser(id, body) ==
    [id |-> id, username |-> body.username, email |-> body.email,
     password_hash |-> hash_password(body.password)]

\* The task once it has read the JSON body.
WithBody(task, body) ==
    [task EXCEPT !.username = body.username, !.email = body.email,
                 !.password = body.password]

\* INSERT INTO users with the JSON body's values (the model picks the body
\* where the handler first reads it), then the guard is dropped.
RegisterInsert(t) ==
    /\ At(t, "reg_insert")
    /\ lock = t
    /\ lock' = NoTask
    /\ \E body \in RegisterInputs, id \in Draw(UserIds, { u.id : u \in users }) :
        LET row == NewUser(id, body)
            task == WithBody(tasks[t], body)
        IN
        \/ /\ UsersInsertOk(users, row)
           /\ users' = users \cup {row}
           /\ tasks' = [tasks EXCEPT ![t] = [task EXCEPT !.user_id = id, !.pc = "tok_lock"]]
        \/ /\ ~UsersInsertOk(users, row)
           /\ users' = users
           /\ tasks' = [tasks EXCEPT ![t] = Finish(task, RegisterFailed)]
    /\ UNCHANGED <<files, auth_tokens, storage, dirs, nreq, uploaded>>

\* ------------------------------------------------------ create_auth_token

\* The response of the handler that called create_auth_token.
TokenIssued(op, token) ==
    IF op = "register" THEN RegisterCreated(token) ELSE LoginOk(token)

\* create_auth_token(...).await.unwrap() on Err.
TokenFailed(op) ==
    IF op = "register" THEN Panicked("handlers.rs:61") ELSE Panicked("handlers.rs:86")

\* Mutant: the token row names a user id that was never inserted.
NewToken_Dangling(token, user_id) == [token |-> token, user_id |-> "u0"]

\* The row create_auth_token inserts.
NewToken(token, user_id) == [token |-> token, user_id |-> user_id]

\* generate_token(), INSERT INTO auth_tokens, then the guard is dropped.
create_auth_token(t) ==
    /\ At(t, "tok_insert")
    /\ lock = t
    /\ lock' = NoTask
    /\ \E token \in Draw(TokenPool, { r.token : r \in auth_tokens }) :
        LET row == NewToken(token, tasks[t].user_id) IN
        \/ /\ TokensInsertOk(auth_tokens, row)
           /\ auth_tokens' = auth_tokens \cup {row}
           /\ tasks' = [tasks EXCEPT ![t] = Finish(tasks[t], TokenIssued(tasks[t].op, token))]
        \/ /\ ~TokensInsertOk(auth_tokens, row)
           /\ auth_tokens' = auth_tokens
           /\ tasks' = [tasks EXCEPT ![t] = Finish(tasks[t], TokenFailed(tasks[t].op))]
    /\ UNCHANGED <<users, files, storage, dirs, nreq, uploaded>>

\* ----------------------------------------------------------------- login

\* POST /login.
LoginStart(t) ==
    /\ CanStart(t)
    /\ tasks' = [tasks EXCEPT ![t] = Request("login", "login_lock")]
    /\ nreq' = nreq + 1
    /\ UNCHANGED <<users, files, auth_tokens, storage, dirs, lock, uploaded>>

\* SELECT ... FROM users WHERE username = ? with the JSON body's username
\* (picked where the handler first reads it), the guard is dropped, then the
\* match on the result.
LoginSelect(t) ==
    /\ At(t, "login_select")
    /\ lock = t
    /\ lock' = NoTask
    /\ \E body \in LoginInputs :
        LET rows == UsersByUsername(users, body.username)
            task == [tasks[t] EXCEPT !.username = body.username,
                                     !.password = body.password]
        IN
        \/ /\ rows = {}
           /\ tasks' = [tasks EXCEPT ![t] = Finish(task, LoginUnknownUser)]
        \/ /\ \E u \in rows :
                /\ ~verify_password(body.password, u.password_hash)
                /\ tasks' = [tasks EXCEPT ![t] = Finish(task, LoginWrongPassword)]
        \/ /\ \E u \in rows :
                /\ verify_password(body.password, u.password_hash)
                /\ tasks' = [tasks EXCEPT ![t] = [task EXCEPT !.user_id = u.id, !.pc = "tok_lock"]]
    /\ UNCHANGED <<users, files, auth_tokens, storage, dirs, nreq, uploaded>>


\* ------------------------------------------------------ verify_auth_token

\* Authorization header values: the tokens generate_token() can return and
\* a string it never returns.
HeaderTokens == Tokens \cup {"bogus"}

\* headers.get("Authorization"): a protected handler ends at once without
\* the header and otherwise calls verify_auth_token.
Protected(t, op, has_header) ==
    /\ CanStart(t)
    /\ \/ /\ ~has_header
          /\ tasks' = [tasks EXCEPT ![t] = Finish(Request(op, "start"), MissingToken)]
       \/ /\ has_header
          /\ tasks' = [tasks EXCEPT ![t] = Request(op, "verify_lock")]
    /\ nreq' = nreq + 1
    /\ UNCHANGED <<users, files, auth_tokens, storage, dirs, lock, uploaded>>

\* SELECT user_id FROM auth_tokens WHERE token = ? with the header's value
\* (picked where the handler first reads it), the guard is dropped, then the
\* handler's match on the result.
verify_auth_token(t) ==
    /\ At(t, "verify_select")
    /\ lock = t
    /\ lock' = NoTask
    /\ \E token \in HeaderTokens :
        LET rows == TokenRows(auth_tokens, token)
            task == [tasks[t] EXCEPT !.token = token]
        IN
        \/ /\ rows = {}
           /\ tasks' = [tasks EXCEPT ![t] = Finish(task, InvalidToken)]
        \/ /\ \E r \in rows :
                tasks' = [tasks EXCEPT ![t] = [task EXCEPT !.user_id = r.user_id,
                                                           !.pc = AfterVerify[task.op]]]
    /\ UNCHANGED <<users, files, auth_tokens, storage, dirs, nreq, uploaded>>

\* ---------------------------------------------------------------- upload

\* POST /upload with an Authorization header (or none) and a multipart body.
UploadStart(t, has_header) == Protected(t, "upload", has_header)

\* multipart.next_field(): without a field the loop is skipped; with one,
\* the bytes are written under files/<user_id>/ (no lock is held).  The
\* fields after the first stay unread: the loop body ends in a return.
UploadField(t) ==
    /\ At(t, "up_field")
    /\ \E multipart \in Multiparts :
        LET task == [tasks[t] EXCEPT !.fields = Len(multipart)] IN
        \/ /\ multipart = <<>>
           /\ tasks' = [tasks EXCEPT ![t] = Finish(task, UploadNoFile)]
           /\ UNCHANGED <<storage, dirs>>
        \/ /\ multipart # <<>>
           /\ LET field == Head(multipart)
                  file_path == FilePath(tasks[t].user_id, field.filename)
              IN
              /\ dirs' = CreateDirAll(dirs, UserDir(tasks[t].user_id))
              /\ \/ /\ WriteOk(dirs', file_path)
                    /\ storage' = Write(storage, file_path, field.data)
                    /\ tasks' = [tasks EXCEPT ![t] = [task EXCEPT !.filename = field.filename,
                                                                  !.data = field.data,
                                                                  !.file_path = file_path,
                                                                  !.pc = "up_lock"]]
                 \/ /\ ~WriteOk(dirs', file_path)
                    /\ storage' = storage
                    /\ tasks' = [tasks EXCEPT ![t] = Finish(task, Panicked("handlers.rs:121"))]
    /\ UNCHANGED <<users, files, auth_tokens, lock, nreq, uploaded>>

\* Mutant: the row is inserted as public.
NewFile_Public(id, task, at) ==
    [id |-> id, user_id |-> task.user_id, filename |-> task.filename,
     file_path |-> task.file_path, is_public |-> TRUE, public_url |-> NoUrl,
     created_at |-> at, updated_at |-> at]

\* The row upload_file inserts (id = Uuid::new_v4(), now = Utc::now()).
NewFile(id, task, at) ==
    [id |-> id, user_id |-> task.user_id, filename |-> task.filename,
     file_path |-> task.file_path, is_public |-> FALSE, public_url |-> NoUrl,
     created_at |-> at, updated_at |-> at]

\* INSERT INTO files ... .unwrap(), then the guard is dropped.
UploadInsert(t) ==
    /\ At(t, "up_insert")
    /\ lock = t
    /\ lock' = NoTask
    /\ \E id \in Draw(FileIds, { files[i].id : i \in 1..Len(files) }) :
        LET row == NewFile(id, tasks[t], Now) IN
        \/ /\ FilesInsertOk(files, row)
           /\ files' = Append(files, row)
           /\ uploaded' = [f \in DOMAIN uploaded \cup {id} |->
                              IF f = id THEN tasks[t].data ELSE uploaded[f]]
           /\ tasks' = [tasks EXCEPT ![t] = Finish(tasks[t], UploadCreated)]
        \/ /\ ~FilesInsertOk(files, row)
           /\ UNCHANGED <<files, uploaded>>
           /\ tasks' = [tasks EXCEPT ![t] = Finish(tasks[t], Panicked("handlers.rs:137"))]
    /\ UNCHANGED <<users, auth_tokens, storage, dirs, nreq>>

\* ------------------------------------------------------------------ list

\* GET /files with an Authorization header (or none).
ListStart(t, has_header) == Protected(t, "list", has_header)

\* SELECT ... FROM files WHERE user_id = ?; the guard lives to the return.
get_user_files(t) ==
    /\ At(t, "list_select")
    /\ lock = t
    /\ lock' = NoTask
    /\ tasks' = [tasks EXCEPT ![t] =
                    Finish(tasks[t], ListOk(FilesOfUser(files, tasks[t].user_id)))]
    /\ UNCHANGED <<users, files, auth_tokens, storage, dirs, nreq, uploaded>>

\* --------------------------------------------------------------- publish

\* POST /files/:file_id/make_public with an Authorization header (or none).
PublishStart(t, has_header) == Protected(t, "publish", has_header)

\* Mutant: the guard of the UPDATE is kept alive across the match.
PublishUpdate_KeepGuard(t) ==
    /\ At(t, "pub_update")
    /\ lock = t
    /\ \E file_id \in Uuids :
        LET task == [tasks[t] EXCEPT !.file_id = file_id] IN
        /\ files' = FilesPublish(files, PublicUrl(file_id), file_id, task.user_id)
        /\ \/ /\ FilesPublishCount(files, file_id, task.user_id) > 0
              /\ tasks' = [tasks EXCEPT ![t] = [task EXCEPT !.pc = "pub_lock2"]]
              /\ lock' = lock
           \/ /\ ~(FilesPublishCount(files, file_id, task.user_id) > 0)
              /\ tasks' = [tasks EXCEPT ![t] = Finish(task, PublishNotFound)]
              /\ lock' = NoTask
    /\ UNCHANGED <<users, auth_tokens, storage, dirs, nreq, uploaded>>

\* UPDATE files SET ... WHERE id = ? AND user_id = ? with the path's
\* file_id (picked where the handler first reads it), the guard is dropped,
\* then the match on the number of rows updated.
PublishUpdate(t) ==
    /\ At(t, "pub_update")
    /\ lock = t
    /\ lock' = NoTask
    /\ \E file_id \in Uuids :
        LET task == [tasks[t] EXCEPT !.file_id = file_id] IN
        /\ files' = FilesPublish(files, PublicUrl(file_id), file_id, task.user_id)
        /\ \/ /\ FilesPublishCount(files, file_id, task.user_id) > 0
              /\ tasks' = [tasks EXCEPT ![t] = [task EXCEPT !.pc = "pub_lock2"]]
           \/ /\ ~(FilesPublishCount(files, file_id, task.user_id) > 0)
              /\ tasks' = [tasks EXCEPT ![t] = Finish(task, PublishNotFound)]
    /\ UNCHANGED <<users, auth_tokens, storage, dirs, nreq, uploaded>>

\* SELECT ... FROM files WHERE id = ? ... .unwrap(), the guard is dropped.
PublishSelect(t) ==
    /\ At(t, "pub_select")
    /\ lock = t
    /\ lock' = NoTask
    /\ LET rows == FilesById(files, tasks[t].file_id) IN
        tasks' = [tasks EXCEPT ![t] =
                    Finish(tasks[t], IF rows = <<>>
                                     THEN Panicked("handlers.rs:233")
                                     ELSE PublishOk(rows[1]))]
    /\ UNCHANGED <<users, files, auth_tokens, storage, dirs, nreq, uploaded>>

\* ----------------------------------------------------------------- serve

\* GET /public/:file_id; the handler does not take the headers.
ServeStart(t, token) ==
    /\ CanStart(t)
    /\ tasks' = [tasks EXCEPT ![t] = [Request("serve", "serve_lock") EXCEPT !.token = token]]
    /\ nreq' = nreq + 1
    /\ UNCHANGED <<users, files, auth_tokens, storage, dirs, lock, uploaded>>

\* SELECT file_path FROM files WHERE id = ? AND is_public = ? with the
\* path's file_id (picked where the handler first reads it), the guard is
\* dropped, then the match on the result.
ServeSelect(t) ==
    /\ At(t, "serve_select")
    /\ lock = t
    /\ lock' = NoTask
    /\ \E file_id \in Uuids :
        LET rows == PublicFilesById(files, file_id)
            task == [tasks[t] EXCEPT !.file_id = file_id]
        IN
        \/ /\ rows = <<>>
           /\ tasks' = [tasks EXCEPT ![t] = Finish(task, ServeNoRow)]
        \/ /\ rows # <<>>
           /\ tasks' = [tasks EXCEPT ![t] = [task EXCEPT !.file_path = rows[1].file_path,
                                                          !.pc = "serve_open"]]
    /\ UNCHANGED <<users, files, auth_tokens, storage, dirs, nreq, uploaded>>

\* fs::File::open(&path) and the streamed body.
ServeOpen(t) ==
    /\ At(t, "serve_open")
    /\ tasks' = [tasks EXCEPT ![t] =
                    Finish(tasks[t],
                           IF OpenOk(storage, tasks[t].file_path)
                           THEN ServeOk(storage[Resolve(tasks[t].file_path)])
                           ELSE ServeNoBytes)]
    /\ UNCHANGED <<users, files, auth_tokens, storage, dirs, lock, nreq, uploaded>>

\* ------------------------------------------------------------ the server

Next ==
    \E t \in Tasks :
        \/ RegisterStart(t)
        \/ LoginStart(t)
        \/ \E has_header \in BOOLEAN : UploadStart(t, has_header)
        \/ \E has_header \in BOOLEAN : ListStart(t, has_header)
        \/ \E has_header \in BOOLEAN : PublishStart(t, has_header)
        \/ \E token \in HeaderTokens \cup {NoToken} : ServeStart(t, token)
        \/ Lock(t)
        \/ RegisterInsert(t)
        \/ create_auth_token(t)
        \/ LoginSelect(t)
        \/ verify_auth_token(t)
        \/ UploadField(t)
        \/ UploadInsert(t)
        \/ get_user_files(t)
        \/ PublishUpdate(t)
        \/ PublishSelect(t)
        \/ ServeSelect(t)
        \/ ServeOpen(t)
        \/ Respond(t)

Spec == Init /\ [][Next]_vars

\* The steps of a task's handler between two awaits of the mutex.
Run(t) ==
    \/ RegisterInsert(t)
    \/ create_auth_token(t)
    \/ LoginSelect(t)
    \/ verify_auth_token(t)
    \/ UploadField(t)
    \/ UploadInsert(t)
    \/ get_user_files(t)
    \/ PublishUpdate(t)
    \/ PublishSelect(t)
    \/ ServeSelect(t)
    \/ ServeOpen(t)
    \/ Respond(t)

\* The tokio runtime polls every task that can make progress, and the tokio
\* Mutex hands the lock to its waiters in the order in which they arrived:
\* a task that can take a step, or the mutex, from some point on without
\* interruption does take it.
Fairness == \A t \in Tasks : WF_vars(Lock(t) \/ Run(t))

\* The server with the number of requests of a run capped at LiveRequests.
FairNext == Next /\ nreq' <= LiveRequests

FairSpec == Init /\ [][FairNext]_vars /\ Fairness


\* ================================================================ claims

\* The task's handler has returned in this state.
Responding(t) == tasks[t].pc = "respond"

\* The task takes the step that ends its handler.
Finishes(t) == tasks[t].pc # "respond" /\ tasks'[t].pc = "respond"

\* The rows of the files table.
FileRows == { files[i] : i \in 1..Len(files) }

\* The tables and the byte storage are left as they are.
NothingWritten ==
    /\ users' = users
    /\ files' = files
    /\ auth_tokens' = auth_tokens
    /\ storage' = storage
    /\ dirs' = dirs

\* C1: read gate.  A serve_public_file request ends with the file's bytes
\* exactly when, at that moment, a files row with the requested id is
\* public; for a private file and for an id without a row it ends with
\* one and the same 404 "File not found".  The Authorization header (any
\* token, or none) plays no part.
C1_ReadGate ==
    [][\A t \in Tasks :
        (tasks[t].op = "serve" /\ Finishes(t)) =>
            LET public == { r \in FileRows : r.id = tasks'[t].file_id /\ r.is_public } IN
            /\ public # {} =>
                  /\ tasks'[t].resp.status = "OK"
                  /\ \A r \in public :
                        tasks'[t].resp.content = storage[Resolve(r.file_path)]
            /\ public = {} =>
                  tasks'[t].resp = Message("NOT_FOUND", "File not found")
      ]_vars

\* C1 witness: a request without any token is served a public file's bytes.
C1_Witness ==
    \E t \in Tasks :
        /\ Responding(t)
        /\ tasks[t].op = "serve"
        /\ tasks[t].token = NoToken
        /\ tasks[t].resp.status = "OK"
        /\ tasks[t].resp.content \in Contents

\* C2: make_file_public by an authenticated user for a file id that has no
\* row owned by that user (a row of another user, or no row at all) ends
\* with 404 "File not found", the same response in both cases, and leaves
\* the files table as it was.
C2_PublishNotOwned ==
    [][\A t \in Tasks :
        (tasks[t].pc = "pub_update" /\ tasks'[t].pc # "pub_update") =>
            LET owned == { r \in FileRows : /\ r.id = tasks'[t].file_id
                                           /\ r.user_id = tasks[t].user_id } IN
            owned = {} =>
                /\ tasks'[t].pc = "respond"
                /\ tasks'[t].resp = Message("NOT_FOUND", "File not found")
                /\ files' = files
      ]_vars

\* C2 witness: a publish of another user's file has ended with 404.
C2_Witness ==
    \E t \in Tasks :
        /\ Responding(t)
        /\ tasks[t].op = "publish"
        /\ tasks[t].resp.status = "NOT_FOUND"
        /\ \E r \in FileRows : /\ r.id = tasks[t].file_id
                               /\ r.user_id # tasks[t].user_id
                               /\ ~r.is_public

\* C3: get_user_files with a token of user B ends with 200 and exactly the
\* files rows whose owner is B, an empty list when there are none.
C3_ListOwnFiles ==
    [][\A t \in Tasks :
        (tasks[t].op = "list" /\ tasks[t].pc = "list_select" /\ Finishes(t)) =>
            /\ \E r \in auth_tokens : r.token = tasks[t].token
            /\ \A r \in auth_tokens :
                r.token = tasks[t].token =>
                    LET own == { f \in FileRows : f.user_id = r.user_id }
                        got == tasks'[t].resp.files
                    IN
                    /\ tasks'[t].resp.status = "OK"
                    /\ { got[i] : i \in 1..Len(got) } = own
                    /\ Len(got) = Cardinality(own)
      ]_vars

\* C3 witness: a listing that holds a file of its caller while another
\* user's file is in the table.
C3_Witness ==
    \E t \in Tasks :
        /\ Responding(t)
        /\ tasks[t].op = "list"
        /\ tasks[t].resp.status = "OK"
        /\ Len(tasks[t].resp.files) > 0
        /\ \E f \in FileRows : f.user_id # tasks[t].user_id

\* C4: in every state, a files row has no public_url exactly when it is
\* private, and has one exactly when it is public.
C4_UrlIffPublic ==
    \A r \in FileRows :
        /\ (r.public_url = NoUrl) <=> (r.is_public = FALSE)
        /\ (r.public_url # NoUrl) <=> (r.is_public = TRUE)

\* C4 witness: a public row and a private row side by side.
C4_Witness ==
    \E r, q \in FileRows : r.is_public /\ r.public_url # NoUrl /\ ~q.is_public

\* C5: a protected handler writes to the catalog or to byte storage only
\* after its token has been resolved to a user; a request without a token
\* or with a token that is not in auth_tokens ends with 401 and nothing is
\* written on its behalf.
C5_AuthBeforeWrite ==
    [][\A t \in Tasks :
        LET task == tasks'[t]
            protected == task.op \in {"upload", "list", "publish"}
            resolved == \E r \in auth_tokens :
                            r.token = tasks[t].token /\ r.user_id = tasks[t].user_id
            known == \E r \in auth_tokens : r.token = task.token
        IN
        /\ (protected /\ task # tasks[t] /\ ~NothingWritten) => resolved
        /\ (protected /\ Finishes(t) /\ ~known) =>
                /\ task.resp.status = "UNAUTHORIZED"
                /\ NothingWritten
      ]_vars

\* C5 witness: an upload with a token that is not in auth_tokens has ended
\* with 401 while the catalog holds users, tokens and files.
C5_Witness ==
    \E t \in Tasks :
        /\ Responding(t)
        /\ tasks[t].op = "upload"
        /\ tasks[t].token \in HeaderTokens
        /\ tasks[t].resp = Message("UNAUTHORIZED", "Invalid token")
        /\ auth_tokens # {}
        /\ files # <<>>

\* C6: a register with a username and an email that are not in use adds
\* the user row, once; a register with a username that is in use fails
\* with Conflict and adds nothing; no two user rows share a username.
C6_RegisterOnceElseConflict ==
    [][\A t \in Tasks :
        (tasks[t].pc = "reg_insert" /\ tasks'[t].pc # "reg_insert") =>
            LET name == tasks'[t].username
                email == tasks'[t].email
                taken == \E u \in users : u.username = name
                unused == \A u \in users : u.username # name /\ u.email # email
            IN
            /\ taken => (tasks'[t].resp.status = "CONFLICT" /\ users' = users)
            /\ users' # users =>
                  /\ unused
                  /\ \E u \in users' : /\ users' = users \cup {u}
                                       /\ u.username = name
                                       /\ u.email = email
            /\ \A u, v \in users' : u.username = v.username => u = v
      ]_vars

\* C7: a login with a registered user's password ends with 200 and a token
\* that auth_tokens maps to that user; no row of auth_tokens is ever
\* deleted or changed, so the token resolves to the user from then on.
C7_LoginTokenPersists ==
    [][/\ \A t \in Tasks :
            (tasks[t].op = "login" /\ Finishes(t)) =>
                LET valid == { u \in users :
                                /\ u.username = tasks'[t].username
                                /\ u.password_hash = hash_password(tasks'[t].password) }
                IN
                valid # {} =>
                    /\ tasks'[t].resp.status = "OK"
                    /\ \E r \in auth_tokens' :
                            /\ r.token = tasks'[t].resp.token
                            /\ r.user_id \in { u.id : u \in valid }
       /\ auth_tokens \subseteq auth_tokens'
       /\ \A r, q \in auth_tokens' : r.token = q.token => r = q
      ]_vars

\* C8: a login with a wrong password for a registered username and a login
\* with a username that is not registered end with one and the same 401
\* "Invalid credentials", and neither adds a row to auth_tokens.
C8_LoginFailuresAlike ==
    [][\A t \in Tasks :
        (tasks[t].pc = "login_select" /\ tasks'[t].pc # "login_select") =>
            LET named == { u \in users : u.username = tasks'[t].username }
                valid == { u \in named :
                            u.password_hash = hash_password(tasks'[t].password) }
            IN
            valid = {} =>
                /\ tasks'[t].pc = "respond"
                /\ tasks'[t].resp = Message("UNAUTHORIZED", "Invalid credentials")
                /\ auth_tokens' = auth_tokens
      ]_vars

\* C8 witness: a login for a username that is not registered has ended
\* with the 401 while another username is registered.
C8_Witness ==
    \E t \in Tasks :
        /\ Responding(t)
        /\ tasks[t].op = "login"
        /\ tasks[t].resp.status = "UNAUTHORIZED"
        /\ users # {}
        /\ \A u \in users : u.username # tasks[t].username

\* C9: in every state no two rows of the files table have the same
\* file_path.
C9_UniqueFilePath ==
    \A i, j \in 1..Len(files) : files[i].file_path = files[j].file_path => i = j

\* C10: the bytes serve_public_file streams for a file record are the
\* bytes the upload that created the record carried.
C10_RoundTrip ==
    \A t \in Tasks :
        (Responding(t) /\ tasks[t].op = "serve" /\ tasks[t].resp.status = "OK") =>
            tasks[t].resp.content = uploaded[tasks[t].file_id]

\* C11: upload_file writes the bytes before it inserts the files row.  Every
\* files row names a path that holds bytes; the task that is about to
\* insert has written the bytes it carries at the path of its row; and a
\* failed storage write ends the call at once, without a files row.
C11_BytesBeforeRow ==
    [][/\ \A r \in FileRows : OpenOk(storage, r.file_path)
       /\ \A i \in 1..Len(files') : OpenOk(storage', files'[i].file_path)
       /\ \A t \in Tasks :
            /\ (tasks[t].pc = "up_field" /\ tasks'[t].pc = "up_lock") =>
                  /\ OpenOk(storage', tasks'[t].file_path)
                  /\ storage'[Resolve(tasks'[t].file_path)] = tasks'[t].data
                  /\ files' = files
            /\ (tasks[t].pc = "up_insert" /\ files' # files) =>
                  /\ OpenOk(storage, tasks[t].file_path)
                  /\ files' = Append(files, files'[Len(files')])
                  /\ files'[Len(files')].file_path = tasks[t].file_path
            /\ (tasks[t].pc = "up_field" /\ Finishes(t) /\ storage' = storage) =>
                  files' = files
      ]_vars

\* C11 witness: an upload whose storage write failed has ended, the files
\* table holds the rows of other uploads.
C11_Witness ==
    \E t \in Tasks :
        /\ Responding(t)
        /\ tasks[t].op = "upload"
        /\ tasks[t].resp = Panicked("handlers.rs:121")
        /\ files # <<>>

\* The positions at which a task runs a catalog statement.
Statements == { AfterLock[w] : w \in DOMAIN AfterLock }

\* The tasks that are running a catalog statement.
InFlight(ts) == { t \in Tasks : ts[t].pc \in Statements }

\* C12: at every instant at most one task is running a catalog statement,
\* and that task holds the connection mutex; every step that changes users,
\* files or auth_tokens is a step of the task that holds the mutex, taken
\* at a statement position, and no other task moves in that step.
C12_OneCatalogOp ==
    [][/\ Cardinality(InFlight(tasks)) <= 1
       /\ \A t \in InFlight(tasks) : lock = t
       /\ Cardinality(InFlight(tasks')) <= 1
       /\ \A t \in InFlight(tasks') : lock' = t
       /\ (users' # users \/ files' # files \/ auth_tokens' # auth_tokens) =>
            /\ lock \in InFlight(tasks)
            /\ tasks'[lock] # tasks[lock]
            /\ \A s \in Tasks \ {lock} : tasks'[s] = tasks[s]
      ]_vars

\* C12 witness: one task runs a statement under the mutex while the other
\* task waits for the mutex.
C12_Witness ==
    \E t \in Tasks, s \in Tasks :
        /\ t # s
        /\ lock = t
        /\ tasks[t].pc \in Statements
        /\ tasks[s].pc \in DOMAIN AfterLock

\* The statuses with which a request reports success.
Success == {"OK", "CREATED"}

\* C13: no partial success.  A request that does not report success has
\* changed nothing in the catalog: the step that ends it changes no table,
\* and a register that did not report success has left no users row behind.
C13_NoPartialSuccess ==
    [][\A t \in Tasks :
        (Finishes(t) /\ tasks'[t].resp.status \notin Success) =>
            /\ users' = users
            /\ files' = files
            /\ auth_tokens' = auth_tokens
            /\ tasks[t].op = "register" =>
                  \A u \in users' : u.id # tasks[t].user_id
      ]_vars

\* The outcomes with which a request may report a failure.
Failures == {"UNAUTHORIZED", "CONFLICT", "NOT_FOUND", "BAD_REQUEST", "INTERNAL_SERVER_ERROR"}

\* C14: every request ends with a response, a success or one of the mapped
\* failures; no handler ends in a panic.
C14_NoPanic ==
    \A t \in Tasks :
        Responding(t) => tasks[t].resp.status \in Success \cup Failures

\* C15: visibility is monotone.  No step removes or reorders a files row; a
\* new row is private and has no public_url; a row that is public is
\* public, with the same public_url, after every step.
C15_VisibilityMonotone ==
    [][/\ Len(files') >= Len(files)
       /\ \A i \in 1..Len(files) :
            /\ files'[i].id = files[i].id
            /\ files[i].is_public =>
                  /\ files'[i].is_public
                  /\ files'[i].public_url = files[i].public_url
       /\ \A i \in (Len(files) + 1)..Len(files') :
            /\ files'[i].is_public = FALSE
            /\ files'[i].public_url = NoUrl
      ]_vars

\* C15 witness: an upload has just added a private row next to the public
\* row of the same owner, which is public as before.
C15_Witness ==
    \E t \in Tasks :
        /\ Responding(t)
        /\ tasks[t].op = "upload"
        /\ tasks[t].resp.status = "CREATED"
        /\ Len(files) = 2
        /\ files[1].is_public
        /\ files[1].public_url = PublicUrl(files[1].id)
        /\ files[1].user_id = tasks[t].user_id
        /\ ~files[2].is_public

\* C16: an upload_file call that reports success has added exactly one
\* files row, in the step that ends it: the row is owned by the user of the
\* request's token, is private and has no public_url, also when the body
\* carries more than one field; no other step of an upload changes the
\* files table; a body without a field ends with 400 and adds no row.
C16_OneRecordPerUpload ==
    [][\A t \in Tasks :
        (tasks[t].op = "upload" /\ tasks'[t] # tasks[t]) =>
            LET created == Finishes(t) /\ tasks'[t].resp.status = "CREATED"
                row == files'[Len(files')]
            IN
            /\ created =>
                  /\ tasks'[t].fields >= 1
                  /\ files' = Append(files, row)
                  /\ \E r \in auth_tokens : r.token = tasks[t].token /\ r.user_id = row.user_id
                  /\ \A r \in auth_tokens : r.token = tasks[t].token => r.user_id = row.user_id
                  /\ row.is_public = FALSE
                  /\ row.public_url = NoUrl
                  /\ row.filename # Extra.filename
            /\ ~created => files' = files
            /\ (Finishes(t) /\ tasks[t].pc = "up_field" /\ tasks'[t].fields = 0) =>
                  tasks'[t].resp = Message("BAD_REQUEST", "No file uploaded")
      ]_vars

\* C16 witness: an upload whose body carried two fields has ended with 201
\* and the files table holds one row, for the first field.
C16_Witness ==
    \E t \in Tasks :
        /\ Responding(t)
        /\ tasks[t].op = "upload"
        /\ tasks[t].resp.status = "CREATED"
        /\ tasks[t].fields = 2
        /\ Len(files) = 1
        /\ files[1].user_id = tasks[t].user_id

\* C17: in every state the user_id of every auth_tokens row and of every
\* files row is the id of a users row.
C17_UserIdsExist ==
    /\ \A r \in auth_tokens : \E u \in users : u.id = r.user_id
    /\ \A f \in FileRows : \E u \in users : u.id = f.user_id

\* C17 witness: two users, each with a token and with a file.
C17_Witness ==
    \E u, v \in users :
        /\ u # v
        /\ \E r, q \in auth_tokens : r.user_id = u.id /\ q.user_id = v.id
        /\ \E f, g \in FileRows : f.user_id = u.id /\ g.user_id = v.id

\* C18: the UPDATE of a make_file_public that finds the file of its caller
\* sets is_public and public_url = "/public/<file_id>" of the row with
\* that id and changes nothing else: the other rows, and every other
\* column of the row (owner, filename, file_path, created_at, updated_at),
\* are as before.  On a row that is already public it changes nothing, and
\* the request goes on to its SELECT.
C18_PublishFrame ==
    [][\A t \in Tasks :
        (tasks[t].pc = "pub_update" /\ tasks'[t].pc # "pub_update") =>
            LET file_id == tasks'[t].file_id
                owned == { i \in 1..Len(files) : /\ files[i].id = file_id
                                                 /\ files[i].user_id = tasks[t].user_id }
            IN
            /\ Len(files') = Len(files)
            /\ \A i \in (1..Len(files)) \ owned : files'[i] = files[i]
            /\ owned # {} =>
                  /\ Cardinality(owned) = 1
                  /\ tasks'[t].pc = "pub_lock2"
                  /\ \A i \in owned :
                        /\ files'[i] = [files[i] EXCEPT !.is_public = TRUE,
                                                        !.public_url = <<"public", file_id>>]
                        /\ files'[i].id = files[i].id
                        /\ files'[i].user_id = files[i].user_id
                        /\ files'[i].filename = files[i].filename
                        /\ files'[i].file_path = files[i].file_path
                        /\ files'[i].created_at = files[i].created_at
                        /\ files'[i].updated_at = files[i].updated_at
                        /\ files[i].is_public => files' = files
      ]_vars

\* C18 witness: two publish requests for the same file have both run their
\* UPDATE, one has ended with 200, and the other row of the table is
\* private as before.
C18_Witness ==
    \E t \in Tasks, s \in Tasks :
        /\ t # s
        /\ Responding(t)
        /\ tasks[t].op = "publish"
        /\ tasks[t].resp.status = "OK"
        /\ tasks[s].pc = "pub_lock2"
        /\ tasks[s].file_id = tasks[t].file_id
        /\ \E r \in FileRows : r.id # tasks[t].file_id /\ ~r.is_public

\* C19: the SELECT of make_file_public, run under a second acquisition of
\* the mutex, finds the row whatever ran in between: the request ends
\* with 200 and a record that has the requested id, is owned by the
\* caller, is public and has public_url = "/public/<file_id>".
C19_PublishReturnsRow ==
    [][\A t \in Tasks :
        (tasks[t].pc = "pub_select" /\ tasks'[t].pc # "pub_select") =>
            /\ tasks'[t].pc = "respond"
            /\ tasks'[t].resp.status = "OK"
            /\ Len(tasks'[t].resp.files) = 1
            /\ LET file == tasks'[t].resp.files[1] IN
                /\ file.id = tasks[t].file_id
                /\ file.user_id = tasks[t].user_id
                /\ \E r \in auth_tokens : r.token = tasks[t].token /\ r.user_id = file.user_id
                /\ file.is_public = TRUE
                /\ file.public_url = <<"public", tasks[t].file_id>>
                /\ file \in FileRows
      ]_vars

\* C19 witness: a publish has ended with 200 and the public record of its
\* caller while the table holds a second row and the other task waits for
\* the mutex.
C19_Witness ==
    \E t \in Tasks, s \in Tasks :
        /\ t # s
        /\ Responding(t)
        /\ tasks[t].op = "publish"
        /\ tasks[t].resp.status = "OK"
        /\ tasks[t].resp.files[1].is_public
        /\ tasks[s].pc \in DOMAIN AfterLock
        /\ \E r \in FileRows : r.id # tasks[t].file_id

\* The task waits for the connection mutex.
Waiting(t) == tasks[t].pc \in DOMAIN AfterLock

\* C20: a task that awaits the mutex does not hold it; the task that holds
\* the mutex is at a statement, whose step releases it; a task leaves its
\* wait only by obtaining the mutex; and, with fair scheduling, the mutex
\* is always released again and the request of every task that waits for
\* it ends.
C20_LockLiveness ==
    /\ [](\A t \in Tasks : Waiting(t) => lock # t)
    /\ [](\A t \in Tasks : lock = t => tasks[t].pc \in Statements)
    /\ [][\A t \in Tasks : (Waiting(t) /\ tasks'[t] # tasks[t]) =>
                                (lock = NoTask /\ lock' = t)]_vars
    /\ (lock # NoTask) ~> (lock = NoTask)
    /\ \A t \in Tasks : Waiting(t) ~> Responding(t)

\* C20 witness: a publish holds the mutex for the second time in one
\* request, for its SELECT, while the other task waits for the mutex.
C20_Witness ==
    \E t \in Tasks, s \in Tasks :
        /\ t # s
        /\ lock = t
        /\ tasks[t].pc = "pub_select"
        /\ Waiting(s)

=============================================================================
